---- MODULE Spec2Model ----
(***************************************************************************)
(* Model of notebooks/Crescent_City_Inundation_CartopyMap.ipynb:           *)
(*   - discrete_cmap_1, the discrete colour map builder (cell at 303-317), *)
(*   - the two masking steps that derive hmax_onshore (cell at 260-266),   *)
(*   - read_asc_file of data_tools.py, which the notebook imports and      *)
(*     calls (94, 113, 152) but which is not part of the sources.          *)
(* Floating-point numbers are modelled as exact rationals <<p, q>> in      *)
(* lowest terms with q > 0; rounding error is not modelled.                *)
(***************************************************************************)
EXTENDS Integers, Sequences, FiniteSets, TLC

\* ------------------------------------------------------------------ bounds
MaxLines == 9
MaxStart == 2
MaxStep == 3
MaxCols == 3
MaxRows == 3
MaxCorner == 1
MaxCellNum == 2
MaxCellDen == 2
NCells == 2
MaxDepth == 2
MaxTopo == 1

\* --------------------------------------------------- rational arithmetic
Abs(x) == IF x < 0 THEN -x ELSE x

RECURSIVE GCD(_, _)
GCD(a, b) == IF b = 0 THEN a ELSE GCD(b, a % b)

Norm(p, q) ==
    LET s == IF q < 0 THEN -1 ELSE 1
        g == GCD(Abs(p), Abs(q))
    IN  <<(s * p) \div g, (s * q) \div g>>

Rat(n) == <<n, 1>>
RAdd(a, b) == Norm(a[1] * b[2] + b[1] * a[2], a[2] * b[2])
RSub(a, b) == Norm(a[1] * b[2] - b[1] * a[2], a[2] * b[2])
RMul(a, b) == Norm(a[1] * b[1], a[2] * b[2])
RDivInt(a, d) == Norm(a[1], a[2] * d)
RLess(a, b) == a[1] * b[2] < b[1] * a[2]
RLeq(a, b) == a[1] * b[2] <= b[1] * a[2]

\* ------------------------------------------------------- numpy primitives
\* numpy.linspace(start, stop, num) raises ValueError for a negative num
linspace_raises(num) == num < 0

\* variant: samples taken at k+1 instead of k, endpoint not pinned
linspaceShifted(start, stop, num) ==
    LET div == num - 1
        delta == RSub(stop, start)
    IN  [k \in 1..num |->
            IF div > 0
            THEN RAdd(RMul(Rat(k), RDivInt(delta, div)), start)
            ELSE RAdd(RMul(Rat(k), delta), start)]

\* variant: endpoint excluded (div = num, last sample not pinned to stop)
linspaceNoEndpoint(start, stop, num) ==
    LET div == num
        delta == RSub(stop, start)
    IN  [k \in 1..num |->
            IF div > 0
            THEN RAdd(RMul(Rat(k - 1), RDivInt(delta, div)), start)
            ELSE RAdd(RMul(Rat(k - 1), delta), start)]

\* numpy.linspace(start, stop, num), endpoint=True:
\*   div = num - 1; y = arange(0, num); step = delta / div;
\*   y = y * step + start   (y * delta + start when div = 0);
\*   if num > 1: y[-1] = stop
linspace(start, stop, num) ==
    LET div == num - 1
        delta == RSub(stop, start)
    IN  [k \in 1..num |->
            IF num > 1 /\ k = num
            THEN stop
            ELSE IF div > 0
                 THEN RAdd(RMul(Rat(k - 1), RDivInt(delta, div)), start)
                 ELSE RAdd(RMul(Rat(k - 1), delta), start)]

ones(n) == [k \in 1..n |-> Rat(1)]
zeros(n) == [k \in 1..n |-> Rat(0)]
hstack(a, b) == a \o b

Min(a, b) == IF a < b THEN a ELSE b

\* list(zip(Red, Green, Blue)): as long as the shortest argument
zip3(r, g, b) ==
    [k \in 1..Min(Len(r), Min(Len(g), Len(b))) |-> <<r[k], g[k], b[k]>>]

\* ---------------------------------------------------------- discrete_cmap_1
\* variant: rounds the half split up instead of down
SplitN1Ceil(nlines) == nlines \div 2

\* n1 = int(floor((nlines-1)/2.))
SplitN1(nlines) == (nlines - 1) \div 2

\* variant: one interval too many in the high half
SplitN2Extra(nlines, n1) == nlines - n1

\* n2 = nlines - 1 - n1
SplitN2(nlines, n1) == nlines - 1 - n1

\* variant: Green stays at 1 across the high half
GreenChannelFlat(m1, m2) == hstack(linspace(Rat(1), Rat(1), m1), ones(m2))

\* Green = hstack([linspace(1,1,n1),linspace(1,0,n2)])
GreenChannel(m1, m2) == hstack(linspace(Rat(1), Rat(1), m1), linspace(Rat(1), Rat(0), m2))

\* variant: high half of Red filled with zeros
RedChannelZeros(m1, m2) == hstack(linspace(Rat(0), <<4, 5>>, m1), zeros(m2))

\* Red = hstack([linspace(0,0.8,n1), ones(n2)])
RedChannel(m1, m2) == hstack(linspace(Rat(0), <<4, 5>>, m1), ones(m2))

\* Blue = hstack([linspace(1,0.2,n1), zeros(n2)])
BlueChannel(m1, m2) == hstack(linspace(Rat(1), <<1, 5>>, m1), zeros(m2))

\* the call raises when one of its linspace calls does
cmap_raises(nlines) ==
    LET m1 == SplitN1(nlines)
        m2 == SplitN2(nlines, m1)
    IN  linspace_raises(m1) \/ linspace_raises(m2)

cmap_colors(nlines) ==
    LET m1 == SplitN1(nlines)
        m2 == SplitN2(nlines, m1)
    IN  zip3(RedChannel(m1, m2), GreenChannel(m1, m2), BlueChannel(m1, m2))

\* ------------------------------------------------------------ read_asc_file
\* cell-centre abscissa of column j (0-based): xll + (j + 0.5) * cellsize
Xcoord(j, xll, cellsize) == RAdd(Rat(xll), RMul(<<2 * j + 1, 2>>, cellsize))

\* variant: rows numbered from the south
YcoordNoFlip(i, yll, nrows, cellsize) ==
    RAdd(Rat(yll), RMul(<<2 * i + 1, 2>>, cellsize))

\* cell-centre ordinate of row i (0-based, row 0 northernmost):
\* yll + (nrows - 1 - i + 0.5) * cellsize
Ycoord(i, yll, nrows, cellsize) ==
    RAdd(Rat(yll), RMul(<<2 * (nrows - 1 - i) + 1, 2>>, cellsize))

\* ------------------------------------------------------------ masked arrays
DryThreshold == 1      \* 0.001 m, depths being counted in millimetres

\* a plain ndarray seen as a masked array without masked cells
AsMasked(a) == [data |-> a, mask |-> [k \in 1..Len(a) |-> FALSE]]

\* variant: the mask of the input array is dropped
masked_whereDropMask(cond, a) == [data |-> a.data, mask |-> cond]

\* numpy.ma.masked_where(condition, a): a new array with a's data, masked
\* where the condition holds or where a was already masked
masked_where(cond, a) ==
    [data |-> a.data,
     mask |-> [k \in 1..Len(a.data) |-> cond[k] \/ a.mask[k]]]

\* hmax < 0.001
DryCond(h) == [k \in 1..Len(h) |-> h[k] < DryThreshold]

\* topo < 0
WaterCond(t) == [k \in 1..Len(t) |-> t[k] < 0]

\* ------------------------------------------------------------------- state
VARIABLES
    clines,        \* argument of discrete_cmap_1
    cpc,           \* "call" | "returned" | "ValueError" ("idle": not called)
    n1, n2,        \* locals of discrete_cmap_1: sizes of the low and high halves
    colors,        \* list returned by discrete_cmap_1
    header,        \* raster header handed to read_asc_file
    gpc,           \* "file" | "loaded" ("idle": not called)
    X, Y,          \* coordinate vectors of the returned dictionary
    hmax, topo,    \* loaded value arrays (flattened)
    mpc,           \* "loaded" | "dry" | "onshore" ("idle": cell not run)
    hmax_dry, hmax_onshore

vars == <<clines, cpc, n1, n2, colors, header, gpc, X, Y, hmax, topo, mpc, hmax_dry, hmax_onshore>>
cmapVars == <<clines, cpc, n1, n2, colors>>
gridVars == <<header, gpc, X, Y>>
maskVars == <<hmax, topo, mpc, hmax_dry, hmax_onshore>>

NoArray == [data |-> <<>>, mask |-> <<>>]

\* break sequences: evenly spaced, strictly increasing (as np.arange gives)
BreakSeqs ==
    {[i \in 1..n |-> s + (i - 1) * d] : n \in 0..MaxLines, s \in 0..MaxStart, d \in 1..MaxStep}

CmapIdle == clines = <<>> /\ cpc = "idle" /\ n1 = 0 /\ n2 = 0 /\ colors = <<>>
GridIdle == header = [ncols |-> 0] /\ gpc = "idle" /\ X = <<>> /\ Y = <<>>
MaskIdle ==
    /\ hmax = <<>> /\ topo = <<>> /\ mpc = "idle"
    /\ hmax_dry = NoArray /\ hmax_onshore = NoArray

Init ==
    /\ clines \in BreakSeqs
    /\ cpc = "call"
    /\ n1 = 0
    /\ n2 = 0
    /\ colors = <<>>
    /\ GridIdle
    /\ MaskIdle

\* depth_colors = discrete_cmap_1(depth_contour_levels)
discrete_cmap_1 ==
    /\ cpc = "call"
    /\ LET nlines == Len(clines)
       IN  /\ n1' = SplitN1(nlines)
           /\ n2' = SplitN2(nlines, SplitN1(nlines))
           /\ IF cmap_raises(nlines)
              THEN /\ cpc' = "ValueError"
                   /\ colors' = colors
              ELSE /\ cpc' = "returned"
                   /\ colors' = cmap_colors(nlines)
    /\ UNCHANGED <<clines, gridVars, maskVars>>

Next == discrete_cmap_1

Spec == Init /\ [][Next]_vars

\* well-formed headers: ncols, nrows positive, cellsize > 0
CellSizes == {Norm(p, q) : p \in 1..MaxCellNum, q \in 1..MaxCellDen}
Headers ==
    [ncols : 1..MaxCols, nrows : 1..MaxRows,
     xllcorner : (-MaxCorner)..MaxCorner, yllcorner : (-MaxCorner)..MaxCorner,
     cellsize : CellSizes]

InitGrid ==
    /\ header \in Headers
    /\ gpc = "file"
    /\ X = <<>>
    /\ Y = <<>>
    /\ CmapIdle
    /\ MaskIdle

\* hmax_data_dict = read_asc_file(hmax_file, verbose=True); X, Y unpacked
read_asc_file ==
    /\ gpc = "file"
    /\ X' = [j \in 1..header.ncols |-> Xcoord(j - 1, header.xllcorner, header.cellsize)]
    /\ Y' = [i \in 1..header.nrows |->
                Ycoord(i - 1, header.yllcorner, header.nrows, header.cellsize)]
    /\ gpc' = "loaded"
    /\ UNCHANGED <<header, cmapVars, maskVars>>

NextGrid == read_asc_file

SpecGrid == InitGrid /\ [][NextGrid]_vars

InitMask ==
    /\ hmax \in [1..NCells -> 0..MaxDepth]
    /\ topo \in [1..NCells -> (-MaxTopo)..MaxTopo]
    /\ mpc = "loaded"
    /\ hmax_dry = NoArray
    /\ hmax_onshore = NoArray
    /\ CmapIdle
    /\ GridIdle

\* hmax_dry = ma.masked_where(hmax < 0.001, hmax)
MaskDry ==
    /\ mpc = "loaded"
    /\ hmax_dry' = masked_where(DryCond(hmax), AsMasked(hmax))
    /\ mpc' = "dry"
    /\ UNCHANGED <<hmax, topo, hmax_onshore, cmapVars, gridVars>>

\* hmax_onshore = ma.masked_where(topo < 0, hmax_dry)
MaskWater ==
    /\ mpc = "dry"
    /\ hmax_onshore' = masked_where(WaterCond(topo), hmax_dry)
    /\ mpc' = "onshore"
    /\ UNCHANGED <<hmax, topo, hmax_dry, cmapVars, gridVars>>

NextMask == MaskDry \/ MaskWater

SpecMask == InitMask /\ [][NextMask]_vars

\* ------------------------------------------------- colour map properties
N == Len(clines)
Returned == cpc = "returned"
Turquoise == <<Rat(0), Rat(1), Rat(1)>>
Yellow == <<Rat(1), Rat(1), Rat(0)>>
PureRed == <<Rat(1), Rat(0), Rat(0)>>

\* C1: for every breaks sequence of length N >= 2 the call returns a list of
\* exactly N-1 RGB triples, n1 = floor((N-1)/2) of them followed by
\* n2 = N-1-n1; 9 breaks give 8 colours.
C1_ColorCount ==
    (cpc # "call" /\ N >= 2) =>
        /\ Returned
        /\ Len(colors) = N - 1
        /\ \A k \in 1..Len(colors) : Len(colors[k]) = 3
        /\ n1 = (N - 1) \div 2
        /\ n1 + n2 = N - 1
        /\ (N = 9 => Len(colors) = 8)

C1_Witness == Returned /\ N = 9 /\ Len(colors) = 8

\* C2: the returned triples equal the reference ramp: the k-th low triple has
\* Green = 1, Red = 0.8*k/(n1-1), Blue = 1 - 0.8*k/(n1-1); the k-th high
\* triple has Red = 1, Blue = 0, Green = 1 - k/(n2-1); a half of a single
\* interval takes the start value of its ramp.
C2_ReferenceRamp ==
    (Returned /\ N >= 2) =>
        LET r1 == (N - 1) \div 2
            r2 == N - 1 - r1
        IN  /\ Len(colors) = r1 + r2
            /\ \A k \in 0..(r1 - 1) :
                  LET c == colors[k + 1]
                  IN  /\ c[2] = <<1, 1>>
                      /\ IF r1 = 1
                         THEN c[1] = <<0, 1>> /\ c[3] = <<1, 1>>
                         ELSE /\ c[1][1] * 5 * (r1 - 1) = 4 * k * c[1][2]
                              /\ c[3][1] * 5 * (r1 - 1) = (5 * (r1 - 1) - 4 * k) * c[3][2]
            /\ \A k \in 0..(r2 - 1) :
                  LET c == colors[r1 + k + 1]
                  IN  /\ c[1] = <<1, 1>>
                      /\ c[3] = <<0, 1>>
                      /\ IF r2 = 1
                         THEN c[2] = <<1, 1>>
                         ELSE c[2][1] * (r2 - 1) = (r2 - 1 - k) * c[2][2]

C2_Witness ==
    /\ Returned /\ N = 9
    /\ colors[2] = <<(<<4, 15>>), (<<1, 1>>), (<<11, 15>>)>>
    /\ colors[6] = <<(<<1, 1>>), (<<2, 3>>), (<<0, 1>>)>>

\* C3: for N >= 2 the first triple has Green = 1.0 and the last triple has
\* Red = 1.0 and Blue = 0.0; 5 breaks give exactly 4 triples.
C3_EndChannels ==
    (Returned /\ N >= 2) =>
        /\ Len(colors) >= 1
        /\ colors[1][2] = Rat(1)
        /\ colors[Len(colors)][1] = Rat(1)
        /\ colors[Len(colors)][3] = Rat(0)
        /\ (N = 5 => Len(colors) = 4)

C3_Witness == Returned /\ N = 5 /\ Len(colors) = 4 /\ colors[4][1] = Rat(1)

C5_RejectsShortBreaks == (cpc # "call" /\ N < 2) => cpc = "ValueError"

\* number of triples of the low ramp in the returned list (Blue > 0 there)
LowCount == Cardinality({k \in 1..Len(colors) : colors[k][3] # Rat(0)})

C8_ChannelRange ==
    (Returned /\ N >= 2) =>
        \A k \in 1..Len(colors) : \A ch \in 1..3 :
            /\ colors[k][ch][2] > 0
            /\ 0 <= colors[k][ch][1]
            /\ colors[k][ch][1] <= colors[k][ch][2]

C8_Witness ==
    /\ Returned /\ N = 6
    /\ colors[2][1] = <<4, 5>>
    /\ colors[2][3] = <<1, 5>>
    /\ colors[4][2] = <<1, 2>>

\* ------------------------------------------------------- loader properties
\* C9: for a well-formed raster the returned X has length ncols and is
\* strictly increasing, Y has length nrows and is strictly decreasing, so
\* row 0 is the northernmost row.
C9_CoordinateOrder ==
    gpc = "loaded" =>
        /\ Len(X) = header.ncols
        /\ \A j \in 1..(Len(X) - 1) : RLess(X[j], X[j + 1])
        /\ Len(Y) = header.nrows
        /\ \A i \in 1..(Len(Y) - 1) : RLess(Y[i + 1], Y[i])
        /\ \A i \in 1..Len(Y) : RLeq(Y[i], Y[1])

C9_Witness ==
    /\ gpc = "loaded"
    /\ header.ncols = 3 /\ header.nrows = 3
    /\ RLess(X[1], X[3]) /\ RLess(Y[3], Y[1])

\* ------------------------------------------------------ masking properties
\* the two masks applied in the opposite order
OnshoreSwapped == masked_where(DryCond(hmax), masked_where(WaterCond(topo), AsMasked(hmax)))

\* C10: the masking steps leave hmax and topo unchanged; in hmax_onshore a
\* cell is unmasked iff hmax >= 0.001 and topo >= 0 there, its value being
\* the original hmax value; applying the masks in the opposite order gives
\* the same result.
C10_Masking ==
    /\ [][hmax' = hmax /\ topo' = topo]_vars
    /\ [](mpc = "onshore" =>
            /\ hmax_onshore.data = hmax
            /\ Len(hmax_onshore.mask) = Len(hmax)
            /\ \A k \in 1..Len(hmax) :
                  (~hmax_onshore.mask[k]) <=> (hmax[k] >= DryThreshold /\ topo[k] >= 0)
            /\ hmax_onshore = OnshoreSwapped)

C10_Witness ==
    /\ mpc = "onshore"
    /\ hmax[1] >= DryThreshold /\ topo[1] < 0 /\ hmax_onshore.mask[1]
    /\ hmax[2] >= DryThreshold /\ topo[2] >= 0 /\ ~hmax_onshore.mask[2]

====
